---- MODULE Spec2Model ----
(***************************************************************************)
(* State-machine model of FramelessWidgetsHelper / FramelessWidgetsHelper- *)
(* Private (src/src/widgets/framelesswidgetshelper.cpp): the per-window    *)
(* record registry, hit-test region computation, system button state       *)
(* dispatch, fixed-size toggling, helper lookup and window attachment.     *)
(* Q_ASSERT is compiled out (release build): the guards that follow each   *)
(* assertion are what the model executes.                                  *)
(***************************************************************************)
EXTENDS Integers, Sequences, FiniteSets, TLC

VARIABLES
    inserted,       \* keys present in g_widgetsHelper()->data
    gdata,          \* g_widgetsHelper()->data : window id -> WidgetsHelperData
    destroyed,      \* widgets that have been deleted
    emitted,        \* titleBarWidgetChanged emissions made by the most recent call
    last,           \* the most recent public call and its arguments
    btn,            \* per button widget: its hovered / pressed properties
    clicks,         \* per button widget: clicked() signals of the current dispatch
    trace,          \* invocations made so far by the current dispatch
    pending,        \* invocations the current dispatch still has to make
    caps,           \* per button widget: the meta-object members it exposes
    win,            \* QWidget state of the top-level window "W" used by fixed-size code
    os,             \* build platform (Q_OS_WINDOWS or not)
    native,         \* widgets that own a native window handle
    helpers,        \* per object: number of FramelessWidgetsHelper children
    addWindowCalls, \* per window: FramelessManager::addWindow invocations
    timers,         \* per window: deferred show/centering callbacks scheduled, not yet run
    scheduled,      \* per window: QTimer::singleShot calls made so far
    visible,        \* windows made visible by the deferred callback
    attachPc,       \* position inside a running attachToWindow
    attachCalls,    \* per window: attachToWindow calls that resolved to it
    mutex,          \* g_widgetsHelper()->mutex: its holder, or null when free
    stw,            \* position inside a setTitleBarWidget call run step by step
    handler,        \* what the slot connected to titleBarWidgetChanged calls
    got             \* the most recent FramelessWidgetsHelper::get call and its result

vars == <<inserted, gdata, destroyed, emitted, last, btn, clicks, trace, pending,
          caps, win, os, native, helpers, addWindowCalls, timers, scheduled,
          visible, attachPc, attachCalls, mutex, stw, handler, got>>

regVars   == <<inserted, gdata, destroyed, emitted>>
btnVars   == <<btn, clicks, trace, pending, caps>>
winVars   == <<win, os>>
lockVars  == <<mutex, stw, handler>>
getVars   == <<native, helpers, addWindowCalls, timers, scheduled, visible, attachPc,
               attachCalls, got>>

----------------------------------------------------------------------------
(* Bounds of the model: the grid of window positions that is examined.      *)
GridW == 4
GridH == 2

Grid == { <<x, y>> : x \in 0..GridW, y \in 0..GridH }

----------------------------------------------------------------------------
(* The object tree.                                                         *)
Null == "null"

\* "W", "W2": top-level windows; "N": a container child of "W" that may own a
\* native handle; "O": a QObject that is not a widget; the rest: leaf widgets.
Windows       == {"W", "W2"}
ButtonWidgets == {"b1", "b2", "b3"}
Widgets       == Windows \cup {"N", "tb", "tb2", "lbl", "c"} \cup ButtonWidgets
Objects       == Widgets \cup {"O"}

ParentOf(w) ==
    CASE w = "tb"  -> "W"
      [] w = "tb2" -> "W"
      [] w = "N"   -> "W"
      [] w = "b1"  -> "tb"
      [] w = "b2"  -> "N"
      [] w = "b3"  -> "W"
      [] w = "lbl" -> "tb"
      [] w = "c"   -> "N"
      [] OTHER     -> Null

\* QWidget::geometry(): position relative to the parent widget, and size.
Geometry(w) ==
    CASE w = "tb"  -> [x |-> 0, y |-> 0, w |-> 4, h |-> 1]
      [] w = "tb2" -> [x |-> 1, y |-> 0, w |-> 3, h |-> 2]
      [] w = "N"   -> [x |-> 1, y |-> 0, w |-> 3, h |-> 2]
      [] w = "b1"  -> [x |-> 2, y |-> 0, w |-> 2, h |-> 1]
      [] w = "b2"  -> [x |-> 1, y |-> 0, w |-> 2, h |-> 1]
      [] w = "b3"  -> [x |-> 3, y |-> 0, w |-> 1, h |-> 2]
      [] w = "lbl" -> [x |-> 1, y |-> 0, w |-> 1, h |-> 1]
      [] w = "c"   -> [x |-> 0, y |-> 1, w |-> 1, h |-> 1]
      [] OTHER     -> [x |-> 0, y |-> 0, w |-> 4, h |-> 2]

\* QRect::contains(QPoint): false for an empty rectangle.
RectContains(r, p) ==
    /\ r.w > 0 /\ r.h > 0
    /\ r.x <= p[1] /\ p[1] < r.x + r.w
    /\ r.y <= p[2] /\ p[2] < r.y + r.h

\* QRegion(QRect) as the set of points it covers.
RegionOf(r) == { p \in Grid : RectContains(r, p) }

EmptyRect == [x |-> 0, y |-> 0, w |-> 0, h |-> 0]

\* QWidget::mapTo(window, QPoint(0, 0)): walk up the parent chain to window.
RECURSIVE MapToOrigin(_, _)
MapToOrigin(w, window) ==
    IF w = window \/ ParentOf(w) = Null
    THEN <<0, 0>>
    ELSE LET o == MapToOrigin(ParentOf(w), window)
         IN  <<Geometry(w).x + o[1], Geometry(w).y + o[2]>>

\* QWidget::window(): the top-level ancestor.
RECURSIVE TopLevelOf(_)
TopLevelOf(w) == IF ParentOf(w) = Null THEN w ELSE TopLevelOf(ParentOf(w))

\* QWidget::nativeParentWidget(): the nearest strict ancestor with a handle.
RECURSIVE NativeAncestor(_, _)
NativeAncestor(w, nat) ==
    IF ParentOf(w) = Null THEN Null
    ELSE IF ParentOf(w) \in nat THEN ParentOf(w)
    ELSE NativeAncestor(ParentOf(w), nat)

nativeParentWidget(w) == NativeAncestor(w, native)

----------------------------------------------------------------------------
(* Enumerations.                                                            *)
SystemButtonType == {"Unknown", "WindowIcon", "Help", "Minimize", "Maximize",
                     "Restore", "Close"}
ButtonState      == {"Unspecified", "Hovered", "Pressed", "Clicked"}

\* struct WidgetsHelperData, default-constructed.
DefaultData ==
    [ attached              |-> FALSE,
      params                |-> Null,
      titleBarWidget        |-> Null,
      hitTestVisibleWidgets |-> <<>>,
      windowIconButton      |-> Null,
      contextHelpButton     |-> Null,
      minimizeButton        |-> Null,
      maximizeButton        |-> Null,
      closeButton           |-> Null ]

SlotNames == {"windowIconButton", "contextHelpButton", "minimizeButton",
              "maximizeButton", "closeButton"}

\* QPointer<QWidget>: reads as null once the widget has been deleted.
QPointerOf(w) == IF w \in destroyed THEN Null ELSE w

SeqRange(s) == { s[i] : i \in 1..Len(s) }

----------------------------------------------------------------------------
(* Window resolution and registry access.  A helper is named by the object  *)
(* it is a child of.                                                        *)

\* FramelessWidgetsHelperPrivate::getWindow
getWindow(h) ==
    IF h \notin Widgets THEN Null
    ELSE IF nativeParentWidget(h) # Null THEN nativeParentWidget(h)
    ELSE TopLevelOf(h)

\* FramelessWidgetsHelperPrivate::getWindowData: the record read (a copy);
\* the default record it inserts for an unknown key reads the same.
getWindowData(h) ==
    IF getWindow(h) = Null THEN DefaultData ELSE gdata[getWindow(h)]

\* Keys present after getWindowData / getWindowDataMutable ran for helper h.
getWindowDataMutable(h) ==
    IF getWindow(h) = Null THEN inserted ELSE inserted \cup {getWindow(h)}

IdleNow == pending = <<>> /\ attachPc.stage = "idle" /\ stw.stage = "idle"

Call(op, h, w, t, s) == [op |-> op, h |-> h, w |-> w, t |-> t, s |-> s, v |-> FALSE]

----------------------------------------------------------------------------
(* Registration of the title bar, hit-test-visible widgets and buttons.     *)

\* The slot of the record a button type is stored in ("" for Unknown).
SlotOf(t) ==
    CASE t = "WindowIcon" -> "windowIconButton"
      [] t = "Help"       -> "contextHelpButton"
      [] t = "Minimize"   -> "minimizeButton"
      [] t = "Maximize"   -> "maximizeButton"
      [] t = "Restore"    -> "maximizeButton"
      [] t = "Close"      -> "closeButton"
      [] OTHER            -> ""

\* setTitleBarWidget without its null-widget guard.
setTitleBarWidget_noNullGuard(h, widget) ==
    /\ IdleNow
    /\ last' = Call("setTitleBarWidget", h, widget, "Unknown", "Unspecified")
    /\ IF getWindow(h) = Null
       THEN /\ emitted' = 0
            /\ UNCHANGED <<inserted, gdata>>
       ELSE /\ inserted' = getWindowDataMutable(h)
            /\ IF QPointerOf(gdata[getWindow(h)].titleBarWidget) = widget
               THEN /\ emitted' = 0
                    /\ UNCHANGED gdata
               ELSE /\ gdata' = [gdata EXCEPT ![getWindow(h)].titleBarWidget = widget]
                    /\ emitted' = 1
    /\ UNCHANGED <<destroyed, btnVars, winVars, lockVars, getVars>>

\* setTitleBarWidget without the comparison against the stored widget.
setTitleBarWidget_alwaysEmit(h, widget) ==
    /\ IdleNow
    /\ last' = Call("setTitleBarWidget", h, widget, "Unknown", "Unspecified")
    /\ IF widget = Null \/ getWindow(h) = Null
       THEN /\ emitted' = 0
            /\ UNCHANGED <<inserted, gdata>>
       ELSE /\ inserted' = getWindowDataMutable(h)
            /\ gdata' = [gdata EXCEPT ![getWindow(h)].titleBarWidget = widget]
            /\ emitted' = 1
    /\ UNCHANGED <<destroyed, btnVars, winVars, lockVars, getVars>>

\* FramelessWidgetsHelper(Private)::setTitleBarWidget
setTitleBarWidget(h, widget) ==
    /\ IdleNow
    /\ last' = Call("setTitleBarWidget", h, widget, "Unknown", "Unspecified")
    /\ IF widget = Null \/ getWindow(h) = Null
       THEN /\ emitted' = 0
            /\ UNCHANGED <<inserted, gdata>>
       ELSE /\ inserted' = getWindowDataMutable(h)
            /\ IF QPointerOf(gdata[getWindow(h)].titleBarWidget) = widget
               THEN /\ emitted' = 0
                    /\ UNCHANGED gdata
               ELSE /\ gdata' = [gdata EXCEPT ![getWindow(h)].titleBarWidget = widget]
                    /\ emitted' = 1
    /\ UNCHANGED <<destroyed, btnVars, winVars, lockVars, getVars>>

\* FramelessWidgetsHelperPrivate::getTitleBarWidget / titleBarWidget()
getTitleBarWidget(h) == QPointerOf(getWindowData(h).titleBarWidget)

\* FramelessWidgetsHelper(Private)::setHitTestVisible
setHitTestVisible(h, widget) ==
    /\ IdleNow
    /\ last' = Call("setHitTestVisible", h, widget, "Unknown", "Unspecified")
    /\ emitted' = 0
    /\ IF widget = Null \/ getWindow(h) = Null
       THEN UNCHANGED <<inserted, gdata>>
       ELSE /\ inserted' = getWindowDataMutable(h)
            /\ IF widget \in SeqRange(gdata[getWindow(h)].hitTestVisibleWidgets)
               THEN UNCHANGED gdata
               ELSE gdata' = [gdata EXCEPT ![getWindow(h)].hitTestVisibleWidgets =
                                               Append(@, widget)]
    /\ UNCHANGED <<destroyed, btnVars, winVars, lockVars, getVars>>

\* FramelessWidgetsHelper(Private)::setSystemButton
setSystemButton(h, widget, buttonType) ==
    /\ IdleNow
    /\ last' = Call("setSystemButton", h, widget, buttonType, "Unspecified")
    /\ emitted' = 0
    /\ IF widget = Null \/ buttonType = "Unknown" \/ getWindow(h) = Null
       THEN UNCHANGED <<inserted, gdata>>
       ELSE /\ inserted' = getWindowDataMutable(h)
            /\ gdata' = [gdata EXCEPT ![getWindow(h)][SlotOf(buttonType)] = widget]
    /\ UNCHANGED <<destroyed, btnVars, winVars, lockVars, getVars>>

\* Deletion of a widget by the application: every QPointer to it reads null
\* from now on, a raw pointer kept in hitTestVisibleWidgets dangles.
DestroyWidget(w) ==
    /\ IdleNow
    /\ w \notin destroyed
    /\ destroyed' = destroyed \cup {w}
    /\ last' = Call("destroy", Null, w, "Unknown", "Unspecified")
    /\ emitted' = 0
    /\ UNCHANGED <<inserted, gdata, btnVars, winVars, lockVars, getVars>>

----------------------------------------------------------------------------
(* Hit testing.                                                             *)

\* FramelessWidgetsHelperPrivate::mapWidgetGeometryToScene
mapWidgetGeometryToScene(h, widget) ==
    IF widget = Null \/ getWindow(h) = Null
    THEN EmptyRect
    ELSE LET originPoint == MapToOrigin(widget, getWindow(h))
         IN  [x |-> originPoint[1], y |-> originPoint[2],
              w |-> Geometry(widget).w, h |-> Geometry(widget).h]

\* The slots examined with Close ahead of Maximize.
ButtonOrder_closeFirst == <<"WindowIcon", "Help", "Minimize", "Close", "Maximize">>

\* The button types in the order isInSystemButtons examines their slots.
ButtonOrder == <<"WindowIcon", "Help", "Minimize", "Maximize", "Close">>

\* The first position of ButtonOrder from i on whose slot holds a live widget
\* that contains pos in its geometry(); 0 if there is none.
RECURSIVE FirstHit(_, _, _)
FirstHit(data, pos, i) ==
    IF i > Len(ButtonOrder) THEN 0
    ELSE LET b == QPointerOf(data[SlotOf(ButtonOrder[i])])
         IN  IF b # Null /\ RectContains(Geometry(b), pos)
             THEN i
             ELSE FirstHit(data, pos, i + 1)

\* FramelessWidgetsHelperPrivate::isInSystemButtons; prev is the value *button
\* holds before the call, the result is the returned flag and *button after.
isInSystemButtons(h, pos, prev) ==
    LET atEntry == "Unknown"
        i       == FirstHit(getWindowData(h), pos, 1)
    IN  IF i = 0 THEN [ret |-> FALSE, button |-> atEntry]
        ELSE [ret |-> TRUE, button |-> ButtonOrder[i]]

\* DraggableRegion without the subtraction of the hit-test-visible widgets.
DraggableRegion_keepHitTestVisible(h) ==
    LET data    == getWindowData(h)
        buttons == { QPointerOf(data[s]) : s \in SlotNames } \ {Null}
    IN  RegionOf(mapWidgetGeometryToScene(h, QPointerOf(data.titleBarWidget)))
            \ UNION { RegionOf(mapWidgetGeometryToScene(h, b)) : b \in buttons }

\* The region isInTitleBarDraggableArea builds: the title bar minus the
\* buttons minus the hit-test-visible widgets, all mapped to the window.
DraggableRegion(h) ==
    LET data    == getWindowData(h)
        buttons == { QPointerOf(data[s]) : s \in SlotNames } \ {Null}
        hits    == SeqRange(data.hitTestVisibleWidgets) \ {Null}
    IN  (RegionOf(mapWidgetGeometryToScene(h, QPointerOf(data.titleBarWidget)))
            \ UNION { RegionOf(mapWidgetGeometryToScene(h, b)) : b \in buttons })
            \ UNION { RegionOf(mapWidgetGeometryToScene(h, w)) : w \in hits }

\* FramelessWidgetsHelperPrivate::isInTitleBarDraggableArea: the values the
\* call can return.  Dereferencing a deleted hit-test-visible widget is
\* undefined, so either value is possible then.
isInTitleBarDraggableArea(h, pos) ==
    LET data == getWindowData(h)
    IN  IF QPointerOf(data.titleBarWidget) = Null THEN {FALSE}
        ELSE IF SeqRange(data.hitTestVisibleWidgets) \cap destroyed # {}
        THEN BOOLEAN
        ELSE {pos \in DraggableRegion(h)}

----------------------------------------------------------------------------
(* System button state dispatch.  A dispatch is the sequence of             *)
(* QMetaObject::invokeMethod calls updateButtonState makes; each call is    *)
(* one step, and nothing else runs on the UI thread until the last is made. *)

Methods == {"setPressed", "setHovered", "clicked"}

Invocation(b, m, a) == [target |-> b, method |-> m, arg |-> a]

\* updateButtonState with setPressed(true) ahead of setHovered(true).
updateButtonState_pressFirst(b, state) ==
    CASE state = "Unspecified" -> << Invocation(b, "setPressed", FALSE),
                                     Invocation(b, "setHovered", FALSE) >>
      [] state = "Hovered"     -> << Invocation(b, "setPressed", FALSE),
                                     Invocation(b, "setHovered", TRUE) >>
      [] state = "Pressed"     -> << Invocation(b, "setPressed", TRUE),
                                     Invocation(b, "setHovered", TRUE) >>
      [] state = "Clicked"     -> << Invocation(b, "setPressed", FALSE),
                                     Invocation(b, "setHovered", TRUE),
                                     Invocation(b, "clicked", FALSE) >>

\* updateButtonState whose Clicked case leaves the button pressed.
updateButtonState_clickKeepsPressed(b, state) ==
    CASE state = "Unspecified" -> << Invocation(b, "setPressed", FALSE),
                                     Invocation(b, "setHovered", FALSE) >>
      [] state = "Hovered"     -> << Invocation(b, "setPressed", FALSE),
                                     Invocation(b, "setHovered", TRUE) >>
      [] state = "Pressed"     -> << Invocation(b, "setHovered", TRUE),
                                     Invocation(b, "setPressed", TRUE) >>
      [] state = "Clicked"     -> << Invocation(b, "setHovered", TRUE),
                                     Invocation(b, "clicked", FALSE) >>

\* The updateButtonState lambda of setSystemButtonState: the invocations made
\* on button b for a state, in order.
updateButtonState(b, state) ==
    CASE state = "Unspecified" -> << Invocation(b, "setPressed", FALSE),
                                     Invocation(b, "setHovered", FALSE) >>
      [] state = "Hovered"     -> << Invocation(b, "setPressed", FALSE),
                                     Invocation(b, "setHovered", TRUE) >>
      [] state = "Pressed"     -> << Invocation(b, "setHovered", TRUE),
                                     Invocation(b, "setPressed", TRUE) >>
      [] state = "Clicked"     -> << Invocation(b, "setPressed", FALSE),
                                     Invocation(b, "setHovered", TRUE),
                                     Invocation(b, "clicked", FALSE) >>

\* The meta-object test with the clicked() signal not looked up.
hasButtonInterface_noClickedCheck(b) ==
    "setPressed" \in caps[b] /\ "setHovered" \in caps[b]

\* The meta-object test of setSystemButtonState: indexOfSlot / indexOfSignal
\* of setPressed(bool), setHovered(bool) and clicked() are all >= 0.
hasButtonInterface(b) ==
    "setPressed" \in caps[b] /\ "setHovered" \in caps[b] /\ "clicked" \in caps[b]

\* The switch of setSystemButtonState: the widget the button type selects.
widgetButtonOf(h, button) ==
    IF button = "Unknown" THEN Null
    ELSE QPointerOf(getWindowData(h)[SlotOf(button)])

\* FramelessWidgetsHelperPrivate::setSystemButtonState, up to the call of
\* updateButtonState.
setSystemButtonState(h, button, state) ==
    /\ IdleNow
    /\ last' = Call("setSystemButtonState", h, Null, button, state)
    /\ emitted' = 0
    /\ inserted' = (IF button = "Unknown" THEN inserted ELSE getWindowDataMutable(h))
    /\ clicks' = [b \in ButtonWidgets |-> 0]
    /\ trace' = <<>>
    /\ LET widgetButton == widgetButtonOf(h, button)
       IN  IF widgetButton # Null /\ hasButtonInterface(widgetButton)
           THEN pending' = updateButtonState(widgetButton, state)
           ELSE pending' = <<>>
    /\ UNCHANGED <<gdata, destroyed, btn, caps, winVars, lockVars, getVars>>

\* One QMetaObject::invokeMethod call of the running dispatch; a member the
\* widget does not expose is not invoked.
InvokeMethod ==
    /\ pending # <<>>
    /\ LET inv == Head(pending)
           b   == inv.target
       IN  /\ trace' = Append(trace, inv)
           /\ pending' = Tail(pending)
           /\ IF inv.method \notin caps[b]
              THEN UNCHANGED <<btn, clicks>>
              ELSE CASE inv.method = "setPressed" ->
                          /\ btn' = [btn EXCEPT ![b].pressed = inv.arg]
                          /\ UNCHANGED clicks
                     [] inv.method = "setHovered" ->
                          /\ btn' = [btn EXCEPT ![b].hovered = inv.arg]
                          /\ UNCHANGED clicks
                     [] inv.method = "clicked" ->
                          /\ clicks' = [clicks EXCEPT ![b] = @ + 1]
                          /\ UNCHANGED btn
    /\ UNCHANGED <<regVars, last, caps, winVars, lockVars, getVars>>

----------------------------------------------------------------------------
(* Fixed-size toggling of the window "W".                                   *)

kDefaultWindowSize == <<160, 160>>
QWIDGETSIZE_MAX    == 16777215

\* QSize::isEmpty
IsEmptySize(sz) == sz[1] <= 0 \/ sz[2] <= 0

\* QSize::expandedTo
ExpandedTo(a, b) == << IF a[1] > b[1] THEN a[1] ELSE b[1],
                       IF a[2] > b[2] THEN a[2] ELSE b[2] >>

\* FramelessWidgetsHelper(Private)::isWindowFixedSize
isWindowFixedSize(h) ==
    IF getWindow(h) = Null THEN FALSE
    ELSE IF win.fixedHint THEN TRUE
    ELSE IF ~IsEmptySize(win.minSize) /\ ~IsEmptySize(win.maxSize)
            /\ win.minSize = win.maxSize THEN TRUE
    ELSE IF win.policyFixed THEN TRUE
    ELSE FALSE

\* FramelessWidgetsHelper(Private)::setWindowFixedSize.  setFixedSize sets the
\* minimum and the maximum size to the current size; setMinimumSize grows a
\* smaller window; the snapping call exists in the Windows build only.
setWindowFixedSize(h, value) ==
    /\ IdleNow
    /\ last' = [Call("setWindowFixedSize", h, Null, "Unknown", "Unspecified")
                   EXCEPT !.v = value]
    /\ emitted' = 0
    /\ IF getWindow(h) = Null \/ isWindowFixedSize(h) = value
       THEN UNCHANGED win
       ELSE IF value
       THEN win' = [win EXCEPT !.minSize = win.size,
                               !.maxSize = win.size,
                               !.fixedHint = TRUE,
                               !.snap = IF os = "windows" THEN FALSE ELSE @]
       ELSE win' = [win EXCEPT !.fixedHint = FALSE,
                               !.minSize = kDefaultWindowSize,
                               !.maxSize = <<QWIDGETSIZE_MAX, QWIDGETSIZE_MAX>>,
                               !.size = ExpandedTo(win.size, kDefaultWindowSize),
                               !.snap = IF os = "windows" THEN TRUE ELSE @]
    /\ UNCHANGED <<inserted, gdata, destroyed, btnVars, os, lockVars, getVars>>

----------------------------------------------------------------------------
(* Helper lookup and window attachment.  A helper instance is named by the  *)
(* pair of its parent object and its rank among that parent's helpers.      *)

\* o is a strict descendant of p in the object tree.
RECURSIVE IsDescendant(_, _)
IsDescendant(o, p) ==
    IF ParentOf(o) = Null THEN FALSE
    ELSE ParentOf(o) = p \/ IsDescendant(ParentOf(o), p)

\* QObject::findChild<FramelessWidgetsHelper *>() with its default option
\* Qt::FindChildrenRecursively: a direct child if there is one, otherwise a
\* helper found in the subtree; the instances that can be returned.
findChild(parent) ==
    IF helpers[parent] > 0 THEN {<<parent, 1>>}
    ELSE { <<d, 1>> : d \in { o \in Objects : IsDescendant(o, parent) /\ helpers[o] > 0 } }

\* The parent FramelessWidgetsHelper::get computes for an object.
getParentOf(object) ==
    IF object \in Widgets
    THEN (IF nativeParentWidget(object) # Null THEN nativeParentWidget(object)
          ELSE TopLevelOf(object))
    ELSE object

\* The attached test of attachToWindow dropped.
alreadyAttached_never(window) == FALSE

\* attachToWindow: the attached flag read under the mutex.
alreadyAttached(window) == gdata[window].attached

Record(object, parent, inst) ==
    [object |-> object, parent |-> parent, result |-> inst,
     seen |-> [got.seen EXCEPT ![parent] = @ \cup {inst}]]

IdleAttach == [stage |-> "idle", h |-> Null, window |-> Null]

\* FramelessWidgetsHelper::get, including the start of attachToWindow for a
\* helper it creates: window resolution, record lookup and the attached test.
get(object) ==
    /\ IdleNow
    /\ last' = Call("get", Null, object, "Unknown", "Unspecified")
    /\ emitted' = 0
    /\ LET parent == getParentOf(object)
       IN  IF findChild(parent) # {}
           THEN /\ \E inst \in findChild(parent) : got' = Record(object, parent, inst)
                /\ UNCHANGED <<helpers, inserted, attachPc, attachCalls>>
           ELSE /\ helpers' = [helpers EXCEPT ![parent] = @ + 1]
                /\ got' = Record(object, parent, <<parent, helpers[parent] + 1>>)
                /\ IF getWindow(parent) = Null
                   THEN UNCHANGED <<inserted, attachPc, attachCalls>>
                   ELSE /\ inserted' = getWindowDataMutable(parent)
                        /\ attachCalls' = [attachCalls EXCEPT ![getWindow(parent)] = @ + 1]
                        /\ attachPc' = IF alreadyAttached(getWindow(parent))
                                       THEN IdleAttach
                                       ELSE [stage |-> "store", h |-> parent,
                                             window |-> getWindow(parent)]
    /\ UNCHANGED <<gdata, destroyed, btnVars, winVars, lockVars, native, addWindowCalls,
                   timers, scheduled, visible>>

\* attachToWindow: the window is made native, then params and attached = true
\* are written to the record under the mutex.
attachStore ==
    /\ attachPc.stage = "store"
    /\ native' = native \cup {attachPc.window}
    /\ gdata' = [gdata EXCEPT ![attachPc.window].params = attachPc.window,
                              ![attachPc.window].attached = TRUE]
    /\ attachPc' = [attachPc EXCEPT !.stage = "addWindow"]
    /\ UNCHANGED <<inserted, destroyed, emitted, last, btnVars, winVars, lockVars, helpers,
                   addWindowCalls, timers, scheduled, visible, attachCalls, got>>

\* attachToWindow: FramelessManager::instance()->addWindow(params)
attachAddWindow ==
    /\ attachPc.stage = "addWindow"
    /\ addWindowCalls' = [addWindowCalls EXCEPT ![attachPc.window] = @ + 1]
    /\ attachPc' = [attachPc EXCEPT !.stage = "singleShot"]
    /\ UNCHANGED <<regVars, last, btnVars, winVars, lockVars, native, helpers, timers,
                   scheduled, visible, attachCalls, got>>

\* attachToWindow: QTimer::singleShot(0, ...) schedules the show callback.
attachSingleShot ==
    /\ attachPc.stage = "singleShot"
    /\ scheduled' = [scheduled EXCEPT ![attachPc.window] = @ + 1]
    /\ timers' = [timers EXCEPT ![attachPc.window] = @ + 1]
    /\ attachPc' = IdleAttach
    /\ UNCHANGED <<regVars, last, btnVars, winVars, lockVars, native, helpers,
                   addWindowCalls, visible, attachCalls, got>>

\* The deferred callback: window->setVisible(true).
showCallback(w) ==
    /\ IdleNow
    /\ timers[w] > 0
    /\ timers' = [timers EXCEPT ![w] = @ - 1]
    /\ visible' = visible \cup {w}
    /\ UNCHANGED <<regVars, last, btnVars, winVars, lockVars, native, helpers,
                   addWindowCalls, scheduled, attachPc, attachCalls, got>>

\* The application gives a child widget a native window handle
\* (QWidget::winId, Qt::WA_NativeWindow).
becomeNative(w) ==
    /\ IdleNow
    /\ w \notin native
    /\ native' = native \cup {w}
    /\ UNCHANGED <<regVars, last, btnVars, winVars, lockVars, helpers, addWindowCalls,
                   timers, scheduled, visible, attachPc, attachCalls, got>>

----------------------------------------------------------------------------
(* Initial values shared by the specifications: helpers exist for the       *)
(* window "W" and for the non-widget object "O", as after                   *)
(* FramelessWidgetsHelper::get("W") and get("O").                           *)

AttachedData(w) == [DefaultData EXCEPT !.attached = TRUE, !.params = w]

NoCall == Call("none", Null, Null, "Unknown", "Unspecified")

InitRegistry ==
    /\ inserted = {"W"}
    /\ gdata = [w \in Windows |-> IF w = "W" THEN AttachedData(w) ELSE DefaultData]
    /\ destroyed = {}
    /\ emitted = 0
    /\ last = NoCall

InitButtons ==
    /\ btn = [b \in ButtonWidgets |-> [hovered |-> FALSE, pressed |-> FALSE]]
    /\ clicks = [b \in ButtonWidgets |-> 0]
    /\ trace = <<>>
    /\ pending = <<>>
    /\ caps = [b \in ButtonWidgets |-> {"setPressed", "setHovered", "clicked"}]

InitWindow ==
    /\ win = [fixedHint |-> FALSE, minSize |-> <<0, 0>>, maxSize |-> <<9, 9>>,
              size |-> <<4, 3>>, policyFixed |-> FALSE, snap |-> TRUE]
    /\ os = "windows"

IdleCall == [stage |-> "idle", h |-> Null, widget |-> Null]

\* The mutex is free, no call is running and no slot is connected.
InitLock ==
    /\ mutex = Null
    /\ stw = IdleCall
    /\ handler = "none"

InitHelpers ==
    /\ native = {"W"}
    /\ helpers = [o \in Objects |-> IF o \in {"W", "O"} THEN 1 ELSE 0]
    /\ addWindowCalls = [w \in Windows |-> IF w = "W" THEN 1 ELSE 0]
    /\ timers = [w \in Windows |-> 0]
    /\ scheduled = [w \in Windows |-> IF w = "W" THEN 1 ELSE 0]
    /\ visible = {"W"}
    /\ attachPc = [stage |-> "idle", h |-> Null, window |-> Null]
    /\ attachCalls = [w \in Windows |-> IF w = "W" THEN 1 ELSE 0]
    /\ got = [object |-> Null, parent |-> Null, result |-> Null,
              seen |-> [o \in Objects |-> {}]]

----------------------------------------------------------------------------
(* Specification of the registry: any sequence of registrations on the      *)
(* helper of "W" and on the helper of "O", and deletions of leaf widgets.   *)

RegHelpers   == {"W", "O"}
TitleInputs  == {Null, "tb", "tb2"}
HitInputs    == {Null, "lbl", "b1"}
ButtonInputs ==
    ({"b1"} \X {"Minimize", "Maximize", "Unknown"})
    \cup ({"b2"} \X {"Help", "Restore"})
    \cup ({"b3"} \X {"WindowIcon", "Minimize", "Close"})
    \cup ({Null} \X SystemButtonType)
Deletable    == {"b1", "lbl"}

\* What is passed to the helper h: every input to the helper of "W", one
\* valid input of each kind to the helper of "O", whose window is unresolved.
TitleInputsOf(h)  == IF h = "W" THEN TitleInputs ELSE {"tb"}
HitInputsOf(h)    == IF h = "W" THEN HitInputs ELSE {"lbl"}
ButtonInputsOf(h) == IF h = "W" THEN ButtonInputs ELSE {<<"b1", "Minimize">>}

InitReg == InitRegistry /\ InitButtons /\ InitWindow /\ InitHelpers /\ InitLock

NextReg ==
    \/ \E h \in RegHelpers : \E w \in TitleInputsOf(h) \ destroyed :
          setTitleBarWidget(h, w)
    \/ \E h \in RegHelpers : \E w \in HitInputsOf(h) \ destroyed :
          setHitTestVisible(h, w)
    \/ \E h \in RegHelpers : \E wt \in ButtonInputsOf(h) :
          wt[1] \notin destroyed /\ setSystemButton(h, wt[1], wt[2])
    \/ \E w \in Deletable : DestroyWidget(w)

SpecReg == InitReg /\ [][NextReg]_vars

----------------------------------------------------------------------------
(* Specification of hit testing: valid registrations on the helper of "W"   *)
(* and deletions of leaf widgets.                                           *)

NextHit ==
    \/ \E w \in (TitleInputs \ {Null}) \ destroyed : setTitleBarWidget("W", w)
    \/ \E w \in (HitInputs \ {Null}) \ destroyed : setHitTestVisible("W", w)
    \/ \E wt \in ButtonInputs :
          /\ wt[1] # Null /\ wt[2] # "Unknown" /\ wt[1] \notin destroyed
          /\ setSystemButton("W", wt[1], wt[2])
    \/ \E w \in Deletable : DestroyWidget(w)

SpecHit == InitReg /\ [][NextHit]_vars

----------------------------------------------------------------------------
(* Properties of the registry and of hit testing.                           *)

\* pos lies in the rectangle of widget w mapped to the window of helper h.
InScene(h, w, pos) == RectContains(mapWidgetGeometryToScene(h, w), pos)

\* C1: after any sequence of setTitleBarWidget, setSystemButton and
\* setHitTestVisible calls (no widget deleted), isInTitleBarDraggableArea(pos)
\* is true exactly when a title bar widget is set, pos is inside its
\* window-mapped rectangle and inside none of the window-mapped rectangles of
\* the registered buttons and hit-test-visible widgets; false without title bar.
C1_DraggableAreaExact ==
    destroyed = {} =>
        \A h \in RegHelpers : \A pos \in Grid :
            LET d == getWindowData(h)
            IN  isInTitleBarDraggableArea(h, pos) =
                  { /\ d.titleBarWidget # Null
                    /\ InScene(h, d.titleBarWidget, pos)
                    /\ \A sl \in SlotNames :
                          d[sl] # Null => ~InScene(h, d[sl], pos)
                    /\ \A i \in 1..Len(d.hitTestVisibleWidgets) :
                          ~InScene(h, d.hitTestVisibleWidgets[i], pos) }

\* Reached: a title bar, a button and a hit-test-visible widget are registered;
\* one title bar point is draggable, one is excluded by the hit-test-visible
\* widget alone and one by the button alone.
C1_Witness ==
    /\ destroyed = {}
    /\ gdata["W"].titleBarWidget = "tb"
    /\ gdata["W"].hitTestVisibleWidgets = <<"lbl">>
    /\ gdata["W"].closeButton = "b3"
    /\ isInTitleBarDraggableArea("W", <<0, 0>>) = {TRUE}
    /\ isInTitleBarDraggableArea("W", <<1, 0>>) = {FALSE}
    /\ isInTitleBarDraggableArea("W", <<3, 0>>) = {FALSE}

\* C5: setTitleBarWidget(null), setHitTestVisible(null), setSystemButton(null,
\* any type), setSystemButton(widget, Unknown), and any of the three calls on a
\* helper whose window cannot be resolved, leave the registry (every record and
\* the set of keys) unchanged and emit no titleBarWidgetChanged.
C5_GuardedCallsChangeNothing ==
    [][ ( /\ last'.op \in {"setTitleBarWidget", "setHitTestVisible", "setSystemButton"}
          /\ \/ last'.w = Null
             \/ last'.op = "setSystemButton" /\ last'.t = "Unknown"
             \/ getWindow(last'.h) = Null )
        => (gdata' = gdata /\ inserted' = inserted /\ emitted' = 0) ]_vars

\* Reached: setTitleBarWidget(null) was called on the helper of "W" whose
\* record holds a title bar, a hit-test-visible widget and a button.
C5_Witness ==
    /\ last.op = "setTitleBarWidget" /\ last.h = "W" /\ last.w = Null
    /\ gdata["W"].titleBarWidget = "tb2"
    /\ gdata["W"].hitTestVisibleWidgets # <<>>
    /\ gdata["W"].maximizeButton = "b2"
    /\ gdata["W"].attached

\* What setTitleBarWidget(h, w) leaves alone in the record of window k.
RestOf(k) == [gdata[k] EXCEPT !.titleBarWidget = Null]

\* C8 as stated: setTitleBarWidget(w), w non-null, emits once when w differs
\* from the stored title bar widget and not at all otherwise; titleBarWidget()
\* returns w afterwards; the rest of every record is unchanged.
C8_Original ==
    [][ \A h \in RegHelpers : \A w \in Widgets :
          last' = Call("setTitleBarWidget", h, w, "Unknown", "Unspecified") =>
            /\ emitted' = (IF getTitleBarWidget(h) # w THEN 1 ELSE 0)
            /\ getTitleBarWidget(h)' = w
            /\ \A k \in Windows : RestOf(k)' = RestOf(k) ]_vars

\* C8 amended: the same, for a helper whose window can be resolved.
C8_TitleBarSetOnResolvedWindow ==
    [][ \A h \in RegHelpers : \A w \in Widgets :
          ( /\ last' = Call("setTitleBarWidget", h, w, "Unknown", "Unspecified")
            /\ getWindow(h) # Null ) =>
            /\ emitted' = (IF getTitleBarWidget(h) # w THEN 1 ELSE 0)
            /\ getTitleBarWidget(h)' = w
            /\ \A k \in Windows : RestOf(k)' = RestOf(k) ]_vars

\* Reached: setTitleBarWidget replaced a different, registered title bar on
\* "W" and emitted the signal, with buttons and hit-test widgets registered.
C8_Witness ==
    /\ last = Call("setTitleBarWidget", "W", "tb2", "Unknown", "Unspecified")
    /\ emitted = 1
    /\ gdata["W"].titleBarWidget = "tb2"
    /\ gdata["W"].hitTestVisibleWidgets = <<"b1", "lbl">>
    /\ gdata["W"].minimizeButton = "b3"

\* The order of button types the claim C9 names.
C9_Order == <<"WindowIcon", "Help", "Minimize", "Maximize", "Close">>

\* Positions of C9_Order whose registered widget still exists and contains pos.
C9_Containing(h, pos) ==
    { i \in 1..Len(C9_Order) :
        LET b == getWindowData(h)[SlotOf(C9_Order[i])]
        IN  b # Null /\ b \notin destroyed /\ RectContains(Geometry(b), pos) }

\* Values *button may hold before the call.
PrevButtons == {"Restore", "Close"}

\* C9: isInSystemButtons(pos, &button) returns true exactly when a registered,
\* still existing button's geometry contains pos and then reports the first
\* such type in the order WindowIcon, Help, Minimize, Maximize, Close (never
\* Restore); when it returns false the output is Unknown whatever it held.
C9_SystemButtonHit ==
    \A h \in RegHelpers : \A pos \in Grid : \A prev \in PrevButtons :
        LET r == isInSystemButtons(h, pos, prev)
            c == C9_Containing(h, pos)
        IN  /\ r.ret = (c # {})
            /\ r.ret  => r.button = C9_Order[CHOOSE i \in c : \A j \in c : i <= j]
            /\ ~r.ret => r.button = "Unknown"
            /\ r.button # "Restore"

\* Reached: b3 (Close) and b1 (Maximize) both contain (3,0) and Maximize is
\* reported, while (3,1) lies only in b3 and (0,0) in no button.
C9_Witness ==
    /\ gdata["W"].closeButton = "b3"
    /\ gdata["W"].maximizeButton = "b1"
    /\ gdata["W"].windowIconButton = Null /\ gdata["W"].minimizeButton = Null
    /\ destroyed = {}
    /\ isInSystemButtons("W", <<3, 0>>, "Close") = [ret |-> TRUE, button |-> "Maximize"]
    /\ isInSystemButtons("W", <<3, 1>>, "Restore") = [ret |-> TRUE, button |-> "Close"]
    /\ isInSystemButtons("W", <<0, 0>>, "Close") = [ret |-> FALSE, button |-> "Unknown"]

----------------------------------------------------------------------------
(* Specifications of the button state dispatch on the helper of "W".  b1    *)
(* and b2 expose the whole button interface; b3 lacks at most one member.   *)

DispatchInputs ==
    ({"b1"} \X {"Minimize", "Maximize"})
    \cup ({"b2"} \X {"Restore"})
    \cup ({"b3"} \X {"Close"})

CapsChoices == { Methods \ x : x \in {{}, {"setPressed"}, {"setHovered"}, {"clicked"}} }

InitDispatch(pairs) ==
    /\ btn \in [ButtonWidgets -> pairs]
    /\ clicks = [b \in ButtonWidgets |-> 0]
    /\ trace = <<>>
    /\ pending = <<>>
    /\ \E c \in CapsChoices : caps = [b \in ButtonWidgets |-> IF b = "b3" THEN c ELSE Methods]

Unpressed == { [hovered |-> hv, pressed |-> FALSE] : hv \in BOOLEAN }
AnyPair   == [hovered : BOOLEAN, pressed : BOOLEAN]

InitBtn    == InitRegistry /\ InitDispatch(Unpressed) /\ InitWindow /\ InitHelpers /\ InitLock
InitBtnAny == InitRegistry /\ InitDispatch(AnyPair) /\ InitWindow /\ InitHelpers /\ InitLock

NextBtn ==
    \/ \E wt \in DispatchInputs : setSystemButton("W", wt[1], wt[2])
    \/ \E t \in SystemButtonType, st \in ButtonState : setSystemButtonState("W", t, st)
    \/ InvokeMethod

SpecBtn    == InitBtn /\ [][NextBtn]_vars
SpecBtnAny == InitBtnAny /\ [][NextBtn]_vars

----------------------------------------------------------------------------
(* Properties of the button state dispatch.                                 *)

\* The widget registered for a button type on "W": Maximize and Restore name
\* the same registration, every other type its own, Unknown none.
RegisteredFor(t) ==
    CASE t = "WindowIcon"                -> gdata["W"].windowIconButton
      [] t = "Help"                      -> gdata["W"].contextHelpButton
      [] t = "Minimize"                  -> gdata["W"].minimizeButton
      [] t \in {"Maximize", "Restore"}   -> gdata["W"].maximizeButton
      [] t = "Close"                     -> gdata["W"].closeButton
      [] OTHER                           -> Null

\* The (hovered, pressed) pair each button state stands for.
PairFor(st) ==
    CASE st = "Unspecified" -> [hovered |-> FALSE, pressed |-> FALSE]
      [] st = "Hovered"     -> [hovered |-> TRUE,  pressed |-> FALSE]
      [] st = "Pressed"     -> [hovered |-> TRUE,  pressed |-> TRUE]
      [] st = "Clicked"     -> [hovered |-> TRUE,  pressed |-> FALSE]

DispatchReturned == last.op = "setSystemButtonState" /\ pending = <<>>

\* C2: when setSystemButtonState(button, state) returns, a registered button
\* exposing setPressed, setHovered and clicked has the pair of the state,
\* whatever pair it had, and clicked was triggered once for Clicked and not at
\* all for the other states.
C2_PairAfterDispatch ==
    DispatchReturned =>
        LET b == RegisteredFor(last.t)
        IN  (b # Null /\ Methods \subseteq caps[b]) =>
               /\ btn[b] = PairFor(last.s)
               /\ clicks[b] = (IF last.s = "Clicked" THEN 1 ELSE 0)

\* Reached: a Clicked dispatch for Maximize returned on b2, registered through
\* Restore; b2 is hovered, released and was clicked once.
C2_Witness ==
    /\ DispatchReturned
    /\ last.t = "Maximize" /\ last.s = "Clicked"
    /\ gdata["W"].maximizeButton = "b2"
    /\ btn["b2"] = [hovered |-> TRUE, pressed |-> FALSE]
    /\ clicks["b2"] = 1
    /\ Len(trace) = 3

\* Invocations of method m with argument a among the first n of the dispatch.
MadeBefore(n, b, m, a) ==
    \E i \in 1..(n - 1) : trace[i] = Invocation(b, m, a)

\* C3: starting from unpressed buttons, no button is ever pressed while not
\* hovered, between any two invocations of a dispatch as well as on return;
\* clicked is triggered only once the button was set released and hovered.
C3_NeverPressedUnhovered ==
    \A b \in ButtonWidgets :
        /\ btn[b].pressed => btn[b].hovered
        /\ \A n \in 1..Len(trace) :
              trace[n] = Invocation(b, "clicked", FALSE) =>
                 /\ MadeBefore(n, b, "setPressed", FALSE)
                 /\ MadeBefore(n, b, "setHovered", TRUE)
                 /\ btn[b] = [hovered |-> TRUE, pressed |-> FALSE]

\* Reached: a Pressed dispatch on b1, which was not hovered, has made its
\* first invocation and not yet the second.
C3_Witness ==
    /\ last.op = "setSystemButtonState" /\ last.s = "Pressed"
    /\ trace = << Invocation("b1", "setHovered", TRUE) >>
    /\ pending = << Invocation("b1", "setPressed", TRUE) >>
    /\ btn["b1"] = [hovered |-> TRUE, pressed |-> FALSE]

\* C4: a dispatch for a type changes only the widget registered for it and
\* leaves every other button as it was; nothing is invoked when no widget is
\* registered for the type, when the type is Unknown, or when the widget
\* lacks one of setPressed, setHovered, clicked.
C4_OnlyRegisteredButtonTouched ==
    [][ last'.op = "setSystemButtonState" =>
          LET b == RegisteredFor(last'.t)
          IN  /\ \A o \in ButtonWidgets \ {b} : btn'[o] = btn[o] /\ clicks'[o] = 0
              /\ \A i \in 1..Len(trace') : trace'[i].target = b
              /\ \A i \in 1..Len(pending') : pending'[i].target = b
              /\ (b = Null \/ ~(Methods \subseteq caps[b])) =>
                    /\ trace' = <<>> /\ pending' = <<>>
                    /\ btn' = btn
                    /\ clicks' = [o \in ButtonWidgets |-> 0] ]_vars

\* Reached: with b1 registered for Minimize and pressed, and b2 registered for
\* the Maximize/Restore slot, an Unspecified dispatch for Restore has returned
\* after two invocations; and a dispatch for Close did nothing to b3, which
\* lacks a member.
C4_Witness ==
    /\ DispatchReturned
    /\ last.t = "Restore" /\ last.s = "Unspecified"
    /\ gdata["W"].minimizeButton = "b1"
    /\ gdata["W"].maximizeButton = "b2"
    /\ gdata["W"].closeButton = "b3"
    /\ ~(Methods \subseteq caps["b3"])
    /\ btn["b1"] = [hovered |-> TRUE, pressed |-> TRUE]
    /\ btn["b2"] = [hovered |-> FALSE, pressed |-> FALSE]
    /\ Len(trace) = 2

----------------------------------------------------------------------------
(* Specification of fixed-size toggling: the window starts with any flag,   *)
(* size constraints and size policy; setWindowFixedSize is called on the    *)
(* helper of "W" and on the helper of "O".                                  *)

SizeChoices == { <<0, 0>>, <<160, 160>>, <<300, 200>>,
                 <<QWIDGETSIZE_MAX, QWIDGETSIZE_MAX>> }

InitWindowAny ==
    /\ win \in [ fixedHint   : BOOLEAN,
                 minSize     : SizeChoices,
                 maxSize     : SizeChoices \ {<<0, 0>>},
                 size        : {<<0, 0>>, <<300, 200>>},
                 policyFixed : BOOLEAN,
                 snap        : BOOLEAN ]
    /\ win.minSize[1] <= win.maxSize[1] /\ win.minSize[2] <= win.maxSize[2]
    /\ os \in {"windows", "other"}

InitFixed == InitRegistry /\ InitButtons /\ InitWindowAny /\ InitHelpers /\ InitLock

NextFixed == \E h \in RegHelpers, value \in BOOLEAN : setWindowFixedSize(h, value)

SpecFixed == InitFixed /\ [][NextFixed]_vars

\* C6 (first part): on a helper with a resolvable window, isWindowFixedSize()
\* returns v right after setWindowFixedSize(v) returned, whatever the flag,
\* the minimum/maximum sizes and the size policy were before.
C6_FixedSizeReadsBack ==
    (last.op = "setWindowFixedSize" /\ getWindow(last.h) # Null) =>
        isWindowFixedSize(last.h) = last.v

\* C6 (second part): when isWindowFixedSize() already equals v, the call
\* changes no flag, size constraint or snapping setting.
C6_NoChangeWhenEqual ==
    [][ \A h \in RegHelpers :
          (last'.op = "setWindowFixedSize" /\ last'.h = h
             /\ isWindowFixedSize(h) = last'.v) => win' = win ]_vars

----------------------------------------------------------------------------
(* Specification of helper lookup: FramelessWidgetsHelper::get on the       *)
(* objects of the tree, starting with no helper and no native handle.       *)

GetInputs == {"W", "W2", "N", "tb", "c", "O"}

InitNoHelpers ==
    /\ inserted = {}
    /\ gdata = [w \in Windows |-> DefaultData]
    /\ destroyed = {}
    /\ emitted = 0
    /\ last = NoCall
    /\ native = {}
    /\ helpers = [o \in Objects |-> 0]
    /\ addWindowCalls = [w \in Windows |-> 0]
    /\ timers = [w \in Windows |-> 0]
    /\ scheduled = [w \in Windows |-> 0]
    /\ visible = {}
    /\ attachPc = IdleAttach
    /\ attachCalls = [w \in Windows |-> 0]
    /\ got = [object |-> Null, parent |-> Null, result |-> Null,
              seen |-> [o \in Objects |-> {}]]

InitGet == InitNoHelpers /\ InitButtons /\ InitWindow /\ InitLock

NextGet ==
    \/ \E object \in GetInputs : get(object)
    \/ attachStore
    \/ attachAddWindow
    \/ attachSingleShot
    \/ \E w \in Windows : showCallback(w)
    \/ becomeNative("N")

SpecGet == InitGet /\ [][NextGet]_vars

\* C7: at most one helper is created per window; every get call returns a
\* helper whose parent is the window of the widget it was called with (its
\* native parent widget if it has one, otherwise its top-level window); calls
\* on widgets of the same window return the same instance, also when a nested
\* native child window already has its own helper.
C7_OneHelperPerWindow ==
    /\ \A p \in Objects : helpers[p] <= 1
    /\ got.object \in Widgets => got.result[1] = got.parent
    /\ \A p \in Objects : Cardinality(got.seen[p]) <= 1

\* What does hold of get: at most one helper per parent, and calls that
\* resolve to the same parent return the same instance.
C7_SameInstancePerParent ==
    /\ \A p \in Objects : helpers[p] <= 1
    /\ \A p \in Objects : Cardinality(got.seen[p]) <= 1

\* C10: over any sequence of attachToWindow calls for a window, addWindow is
\* invoked once and the show callback scheduled once, by the first call;
\* attached never returns to false; params and attached = true are in the
\* record before addWindow is invoked.
C10_State ==
    \A w \in Windows :
        /\ addWindowCalls[w] <= 1 /\ scheduled[w] <= 1
        /\ (attachCalls[w] >= 1 /\ attachPc.stage = "idle") =>
               (addWindowCalls[w] = 1 /\ scheduled[w] = 1)
        /\ attachCalls[w] = 0 => (addWindowCalls[w] = 0 /\ scheduled[w] = 0)
        /\ addWindowCalls[w] >= 1 => (gdata[w].attached /\ gdata[w].params = w)

C10_Step ==
    \A w \in Windows :
        /\ gdata[w].attached => gdata'[w].attached
        /\ addWindowCalls'[w] > addWindowCalls[w] =>
              (gdata[w].attached /\ gdata[w].params = w /\ attachCalls[w] = 1)

C10_AttachOnce == []C10_State /\ [][C10_Step]_vars

\* Reached: attachToWindow ran twice for "W" (helpers of "W" and of the native
\* child "N"); addWindow and the callback happened once.
C10_Witness ==
    /\ attachCalls["W"] = 2
    /\ helpers["W"] = 1 /\ helpers["N"] = 1
    /\ attachPc.stage = "idle"
    /\ addWindowCalls["W"] = 1 /\ scheduled["W"] = 1
    /\ gdata["W"].attached

----------------------------------------------------------------------------
(* Mutual exclusion of the two hit tests.                                   *)

\* C12: for every pos and every registration of title bar and buttons,
\* isInSystemButtons(pos) and isInTitleBarDraggableArea(pos) are never both
\* true, also when a button's parent widget is offset from the window origin.
C12_ButtonsAndDragAreaDisjoint ==
    \A pos \in Grid :
        ~( /\ isInSystemButtons("W", pos, "Unknown").ret
           /\ isInTitleBarDraggableArea("W", pos) = {TRUE} )

\* Every registered button's geometry() equals its window-mapped rectangle.
ButtonsAtWindowOrigin ==
    \A sl \in SlotNames :
        LET b == QPointerOf(gdata["W"][sl])
        IN  b # Null => Geometry(b) = mapWidgetGeometryToScene("W", b)

\* What does hold: the two tests exclude each other while every registered
\* button's parent sits at the window origin.
C12_DisjointAtWindowOrigin ==
    ButtonsAtWindowOrigin =>
        \A pos \in Grid :
            ~( /\ isInSystemButtons("W", pos, "Unknown").ret
               /\ isInTitleBarDraggableArea("W", pos) = {TRUE} )

----------------------------------------------------------------------------
(* setTitleBarWidget step by step, with the registry mutex and a slot       *)
(* connected directly to titleBarWidgetChanged on the UI thread.            *)

\* setTitleBarWidget: the null guard, then QMutexLocker locker(&mutex).
stwEnter(h, widget) ==
    /\ IdleNow
    /\ mutex = Null
    /\ last' = Call("setTitleBarWidget", h, widget, "Unknown", "Unspecified")
    /\ emitted' = 0
    /\ IF widget = Null
       THEN UNCHANGED <<mutex, stw>>
       ELSE /\ mutex' = "setTitleBarWidget"
            /\ stw' = [stage |-> "locked", h |-> h, widget |-> widget]
    /\ UNCHANGED <<inserted, gdata, destroyed, btnVars, winVars, handler, getVars>>

\* setTitleBarWidget: getWindowDataMutable, the comparison and the store; each
\* early return destroys the locker, which unlocks the mutex.
stwStore ==
    /\ stw.stage = "locked"
    /\ IF getWindow(stw.h) = Null
       THEN /\ mutex' = Null /\ stw' = IdleCall
            /\ UNCHANGED <<inserted, gdata>>
       ELSE /\ inserted' = getWindowDataMutable(stw.h)
            /\ IF QPointerOf(gdata[getWindow(stw.h)].titleBarWidget) = stw.widget
               THEN /\ mutex' = Null /\ stw' = IdleCall
                    /\ UNCHANGED gdata
               ELSE /\ gdata' = [gdata EXCEPT ![getWindow(stw.h)].titleBarWidget =
                                                  stw.widget]
                    /\ stw' = [stw EXCEPT !.stage = "emit"]
                    /\ UNCHANGED mutex
    /\ UNCHANGED <<destroyed, emitted, last, btnVars, winVars, handler, getVars>>

\* setTitleBarWidget: Q_EMIT q->titleBarWidgetChanged(), inside the scope of
\* the locker; a connected slot runs before the emit returns.
stwEmit ==
    /\ stw.stage = "emit"
    /\ emitted' = 1
    /\ stw' = [stw EXCEPT !.stage = IF handler = "none" THEN "emitted" ELSE "slot"]
    /\ UNCHANGED <<inserted, gdata, destroyed, last, btnVars, winVars, mutex,
                   handler, getVars>>

\* The connected slot calls titleBarWidget(): getWindowData locks the
\* non-recursive mutex, which never returns when the mutex is already held
\* by this thread.
slotCallsTitleBarWidget ==
    /\ stw.stage = "slot"
    /\ stw' = [stw EXCEPT !.stage = IF getWindow(stw.h) # Null /\ mutex # Null
                                    THEN "blocked" ELSE "emitted"]
    /\ UNCHANGED <<regVars, last, btnVars, winVars, mutex, handler, getVars>>

\* setTitleBarWidget returns: the locker unlocks the mutex.
stwReturn ==
    /\ stw.stage = "emitted"
    /\ mutex' = Null
    /\ stw' = IdleCall
    /\ UNCHANGED <<regVars, last, btnVars, winVars, handler, getVars>>

\* The slots an application may have connected to titleBarWidgetChanged.
HandlerChoices == {"none", "titleBarWidget"}

InitMutex ==
    /\ InitRegistry /\ InitButtons /\ InitWindow /\ InitHelpers
    /\ mutex = Null
    /\ stw = IdleCall
    /\ handler \in HandlerChoices

NextMutex ==
    \/ \E h \in RegHelpers : \E w \in TitleInputsOf(h) : stwEnter(h, w)
    \/ stwStore
    \/ stwEmit
    \/ slotCallsTitleBarWidget
    \/ stwReturn
    \/ \E w \in HitInputs \ {Null} : setHitTestVisible("W", w)
    \/ \E t \in {"Minimize", "Maximize"} : setSystemButton("W", "b1", t)

SpecMutex == InitMutex /\ [][NextMutex]_vars

\* C11: setTitleBarWidget always terminates and releases the registry mutex,
\* also when a slot connected to titleBarWidgetChanged calls titleBarWidget()
\* on the UI thread: the signal is never emitted while the mutex is held, no
\* call ever waits for the mutex it holds, and the mutex is free on return.
C11_EmitsUnlockedAndReturns ==
    /\ stw.stage = "emit" => mutex = Null
    /\ stw.stage # "blocked"
    /\ stw.stage = "idle" => mutex = Null

\* The part of C11 about termination alone: no setTitleBarWidget call is ever
\* stuck waiting for the mutex.
C11_NeverBlocked == stw.stage # "blocked"

\* What does hold: whenever setTitleBarWidget has returned the mutex is free,
\* and a call with no slot connected is never stuck.
C11_ReleasedOnReturn ==
    /\ stw.stage = "idle" => mutex = Null
    /\ handler = "none" => stw.stage # "blocked"

====
